---- MODULE Spec2Model ----
(***************************************************************************)
(* The useGeolocation hook of cache_quest (src/src/hooks/useGeolocation.ts)*)
(* as a state machine: the React state object, the five refs, the effect's *)
(* closure variable `cancelled`, and the platform objects the hook talks   *)
(* to (navigator.geolocation, navigator.permissions, the timer queue).     *)
(*                                                                         *)
(* Numbers.  Coordinates and accuracy are reals in the source.  Here they  *)
(* are exact rationals with denominator Scale = 3 * 20^MaxSmooth, stored   *)
(* as integers (value * Scale); the factor 3 makes 100/3 m a value, whose  *)
(* EMA step from 0 is exactly the 5 m movement threshold.  Latitude and longitude are expressed as      *)
(* metres of arc (degrees * pi/180 * 6371000), accuracy in metres.  The    *)
(* EMA alpha*raw + (1-alpha)*prev with alpha = 3/20 is computed exactly;   *)
(* a reading is delivered only while the result is representable, which    *)
(* bounds the number of non-trivial smoothing steps by MaxSmooth.          *)
(* Floating-point rounding of the source is not modelled.                  *)
(* All fixes lie on one meridian (one longitude), where the haversine      *)
(* distance is exactly the difference of the latitudes in metres of arc.   *)
(* Speed is in tenths of a metre per second.  Time is in milliseconds and  *)
(* advances in steps of TickMs.                                            *)
(***************************************************************************)
EXTENDS Integers, Sequences, FiniteSets, TLC

\* ---------------------------------------------------------------- bounds
MaxSmooth == 2          \* non-trivial EMA steps that stay representable
MaxStable == 3          \* cap of stableCountRef (it grows without bound)
MaxRecal == 1           \* cap of outstanding getCurrentPosition requests
TicksPerTimeout == 1    \* clock steps per staleness timeout

\* ------------------------------------------------------------- constants
EMA_ALPHA_NUM == 3      \* EMA_ALPHA = 0.15 = 3/20
EMA_ALPHA_DEN == 20
MAX_ACCEPTABLE_ACCURACY == 100
MIN_MOVEMENT_THRESHOLD == 5
STALENESS_TIMEOUT_MS == 30000
SNAP_AFTER_STABLE_COUNT == 3
STATIONARY_SPEED == 3   \* 0.3 m/s, in tenths of a metre per second

RECURSIVE Pow(_, _)
Pow(b, n) == IF n = 0 THEN 1 ELSE b * Pow(b, n - 1)

Scale == 3 * Pow(EMA_ALPHA_DEN, MaxSmooth)
TickMs == STALENESS_TIMEOUT_MS \div TicksPerTimeout

\* null and non-null values of a nullable cell
None == << >>
Some(x) == << x >>
Val(o) == o[1]

Abs(x) == IF x < 0 THEN -x ELSE x

\* error strings of the hook; "null" stands for the null error
NoError == "null"
ERR_LOST == "Location signal lost. Move to an open area."
ERR_DENIED == "Location access denied."
ERR_ACQUIRING == "Acquiring location"
ERR_UNSUPPORTED == "Location services are not supported by your browser."
ERR_REVOKED == "Location access revoked."
ERR_RECAL == "Recalibration failed"

PermissionStates == {"prompt", "granted", "denied", "unsupported"}
PlatformPermissions == {"prompt", "granted", "denied"}
ErrorCodes == {"PERMISSION_DENIED", "POSITION_UNAVAILABLE", "TIMEOUT"}

\* ------------------------------------------------- inputs (GeolocationCoordinates)
LatSet == {0, (100 * Scale) \div 3}
LngSet == {0}
AccSet == {10 * Scale, 200 * Scale}
SpeedSet == {None, Some(-10), Some(0), Some(STATIONARY_SPEED)}

Coords == [latitude : LatSet, longitude : LngSet, accuracy : AccSet, speed : SpeedSet]

\* ---------------------------------------------------------- pure utilities
\* haversine on one meridian: R * |dLat| ; both latitudes are metres of arc.
\* Off the meridian the small-angle planar distance is used (never needed here).
RECURSIVE ISqrt(_, _)
ISqrt(n, r) == IF (r + 1) * (r + 1) > n THEN r ELSE ISqrt(n, r + 1)

haversine(lat1, lng1, lat2, lng2) ==
    IF lng1 = lng2 THEN Abs(lat2 - lat1)
    ELSE ISqrt((lat2 - lat1) * (lat2 - lat1) + (lng2 - lng1) * (lng2 - lng1), 0)

Ema(raw, prev) == (EMA_ALPHA_NUM * raw + (EMA_ALPHA_DEN - EMA_ALPHA_NUM) * prev) \div EMA_ALPHA_DEN

\* mutant: the weights are swapped (alpha on the previous value)
smooth_SwappedWeights(prev, raw) ==
    IF prev = None THEN raw
    ELSE [latitude  |-> Ema(Val(prev).latitude, raw.latitude),
          longitude |-> Ema(Val(prev).longitude, raw.longitude),
          accuracy  |-> Ema(Val(prev).accuracy, raw.accuracy)]

smooth(prev, raw) ==
    IF prev = None THEN raw
    ELSE [latitude  |-> Ema(raw.latitude, Val(prev).latitude),
          longitude |-> Ema(raw.longitude, Val(prev).longitude),
          accuracy  |-> Ema(raw.accuracy, Val(prev).accuracy)]

\* the EMA of raw over prev is a multiple of 1/Scale
ExactEma(raw, prev) ==
    (EMA_ALPHA_NUM * raw + (EMA_ALPHA_DEN - EMA_ALPHA_NUM) * prev) % EMA_ALPHA_DEN = 0

Representable(prev, raw) ==
    IF prev = None THEN TRUE
    ELSE /\ ExactEma(raw.latitude, Val(prev).latitude)
         /\ ExactEma(raw.longitude, Val(prev).longitude)
         /\ ExactEma(raw.accuracy, Val(prev).accuracy)

\* ------------------------------------------------------------------ state
VARIABLES
    hasGeolocation,     \* navigator.geolocation is defined
    hasPermissionsApi,  \* navigator.permissions?.query is defined
    permStatus,         \* PermissionStatus.state of the platform
    phase,              \* "init" (rendered, effect not run) | "mounted" | "unmounted"
    cancelled,          \* the effect's closure variable
    probe,              \* the permissions.query promise
    listener,           \* a 'change' listener is registered on the PermissionStatus
    state,              \* the React state (GeolocationState without recalibrate)
    smoothedRef,
    lastPushedRef,
    stalenessTimerRef,  \* 0 is null, otherwise a timer id
    watchIdRef,         \* 0 is null, otherwise a watch id
    stableCountRef,
    timers,             \* pending setTimeout callbacks: id -> ms until due
    activeWatches,      \* watch ids the platform is serving
    recalPending,       \* outstanding getCurrentPosition requests
    silentMs            \* ms since mount or since the watchdog was last rearmed (saturating)

vars == << hasGeolocation, hasPermissionsApi, permStatus, phase, cancelled, probe,
           listener, state, smoothedRef, lastPushedRef, stalenessTimerRef, watchIdRef,
           stableCountRef, timers, activeWatches, recalPending, silentMs >>

env == << hasGeolocation, hasPermissionsApi >>

\* the cells the hook's callbacks read and write, as one value
Hook == [state |-> state, smoothedRef |-> smoothedRef, lastPushedRef |-> lastPushedRef,
         stalenessTimerRef |-> stalenessTimerRef, watchIdRef |-> watchIdRef,
         stableCountRef |-> stableCountRef, timers |-> timers,
         activeWatches |-> activeWatches,
         silentMs |-> silentMs]

SetHook(h) ==
    /\ state' = h.state
    /\ smoothedRef' = h.smoothedRef
    /\ lastPushedRef' = h.lastPushedRef
    /\ stalenessTimerRef' = h.stalenessTimerRef
    /\ watchIdRef' = h.watchIdRef
    /\ stableCountRef' = h.stableCountRef
    /\ timers' = h.timers
    /\ activeWatches' = h.activeWatches
    /\ silentMs' = h.silentMs

\* ------------------------------------------------------------ timer queue
clearTimeout(ts, id) == [i \in DOMAIN ts \ {id} |-> ts[i]]

\* setTimeout returns an id no pending timer has (ids are opaque; the least one)
FreshTimerId(ts) ==
    CHOOSE i \in 1..(Cardinality(DOMAIN ts) + 1) :
        i \notin DOMAIN ts /\ \A j \in 1..(i - 1) : j \in DOMAIN ts

\* mutant: the previous timer is not cancelled
RearmStaleness_NoClear(h) ==
    LET id == FreshTimerId(h.timers)
    IN  [h EXCEPT !.timers = h.timers @@ (id :> STALENESS_TIMEOUT_MS),
                  !.stalenessTimerRef = id,
                  !.silentMs = 0]

\* if (stalenessTimerRef.current) clearTimeout(...); stalenessTimerRef.current = setTimeout(...)
RearmStaleness(h) ==
    LET cleared == IF h.stalenessTimerRef # 0
                   THEN clearTimeout(h.timers, h.stalenessTimerRef)
                   ELSE h.timers
        id == FreshTimerId(cleared)
    IN  [h EXCEPT !.timers = cleared @@ (id :> STALENESS_TIMEOUT_MS),
                  !.stalenessTimerRef = id,
                  !.silentMs = 0]

\* the setTimeout callback
StalenessCallback(st) == [st EXCEPT !.stale = TRUE, !.error = ERR_LOST]

\* ------------------------------------------------------------ handlePosition
\* setState(prev => prev.loading || prev.error || prev.stale || ... ? {...} : prev)
\* mutant: the flags are cleared only while loading is set
ClearFlags_OnlyIfLoading(st) ==
    IF st.loading
    THEN [st EXCEPT !.error = NoError, !.loading = FALSE,
                    !.permissionState = "granted", !.stale = FALSE]
    ELSE st

ClearFlags(st) ==
    IF st.loading \/ st.error # NoError \/ st.stale \/ st.permissionState # "granted"
    THEN [st EXCEPT !.error = NoError, !.loading = FALSE,
                    !.permissionState = "granted", !.stale = FALSE]
    ELSE st

\* mutant: the accuracy gate is absent
AccuracyRejected_Never(h, pos) == FALSE

\* mutant: the accuracy gate does not look for a baseline
AccuracyRejected_NoBaselineTest(h, pos) ==
    pos.accuracy > MAX_ACCEPTABLE_ACCURACY * Scale

AccuracyRejected(h, pos) ==
    pos.accuracy > MAX_ACCEPTABLE_ACCURACY * Scale /\ h.smoothedRef # None

\* mutant: the speed >= 0 test is dropped
IsStationary_NegativeSpeed(h, pos) ==
    /\ pos.speed # None
    /\ Val(pos.speed) < STATIONARY_SPEED
    /\ h.smoothedRef # None

\* mutant: the speed test is <= 0.3 instead of < 0.3
IsStationary_AtThreshold(h, pos) ==
    /\ pos.speed # None
    /\ Val(pos.speed) >= 0
    /\ Val(pos.speed) <= STATIONARY_SPEED
    /\ h.smoothedRef # None

IsStationary(h, pos) ==
    /\ pos.speed # None
    /\ Val(pos.speed) >= 0
    /\ Val(pos.speed) < STATIONARY_SPEED
    /\ h.smoothedRef # None

\* mutant: only the first smoothed position is pushed
ShouldPush_FirstOnly(prev, smoothed) == prev = None

\* mutant: every smoothed position is pushed
ShouldPush_Always(prev, smoothed) == TRUE

\* mutant: the threshold test is > instead of >=
ShouldPush_Strict(prev, smoothed) ==
    \/ prev = None
    \/ haversine(Val(prev).latitude, Val(prev).longitude,
                 smoothed.latitude, smoothed.longitude) > MIN_MOVEMENT_THRESHOLD * Scale

ShouldPush(prev, smoothed) ==
    \/ prev = None
    \/ haversine(Val(prev).latitude, Val(prev).longitude,
                 smoothed.latitude, smoothed.longitude) >= MIN_MOVEMENT_THRESHOLD * Scale

\* mutant: the raw reading is exposed instead of the smoothed position
SmoothAndPush_PublishesRaw(h, pos) ==
    LET raw == [latitude |-> pos.latitude, longitude |-> pos.longitude,
                accuracy |-> pos.accuracy]
        smoothed == smooth(h.smoothedRef, raw)
        h1 == RearmStaleness([h EXCEPT !.smoothedRef = Some(smoothed)])
    IN  IF ShouldPush(h1.lastPushedRef, smoothed)
        THEN [h1 EXCEPT !.lastPushedRef = Some(smoothed),
                        !.state = [latitude |-> Some(raw.latitude),
                                   longitude |-> Some(raw.longitude),
                                   accuracy |-> Some(raw.accuracy),
                                   error |-> NoError,
                                   loading |-> FALSE,
                                   permissionState |-> "granted",
                                   stale |-> FALSE]]
        ELSE [h1 EXCEPT !.state = ClearFlags(h1.state)]

\* lines 135-176: smoothing, timer reset, movement threshold
SmoothAndPush(h, pos) ==
    LET raw == [latitude |-> pos.latitude, longitude |-> pos.longitude,
                accuracy |-> pos.accuracy]
        smoothed == smooth(h.smoothedRef, raw)
        h1 == RearmStaleness([h EXCEPT !.smoothedRef = Some(smoothed)])
    IN  IF ShouldPush(h1.lastPushedRef, smoothed)
        THEN [h1 EXCEPT !.lastPushedRef = Some(smoothed),
                        !.state = [latitude |-> Some(smoothed.latitude),
                                   longitude |-> Some(smoothed.longitude),
                                   accuracy |-> Some(smoothed.accuracy),
                                   error |-> NoError,
                                   loading |-> FALSE,
                                   permissionState |-> "granted",
                                   stale |-> FALSE]]
        ELSE [h1 EXCEPT !.state = ClearFlags(h1.state)]

\* mutant: the snap branch does not touch the staleness timer
Snap_NoRearm(h) == [h EXCEPT !.state = ClearFlags(h.state)]

\* lines 116-128: already snapped
Snap(h) ==
    LET h1 == RearmStaleness(h)
    IN  [h1 EXCEPT !.state = ClearFlags(h1.state)]

\* mutant: a moving reading does not reset the stable counter
handlePosition_NoReset(h, pos) ==
    IF AccuracyRejected(h, pos) THEN h
    ELSE IF IsStationary(h, pos)
         THEN LET h1 == [h EXCEPT !.stableCountRef = h.stableCountRef + 1]
              IN  IF h1.stableCountRef >= SNAP_AFTER_STABLE_COUNT
                  THEN Snap(h1)
                  ELSE SmoothAndPush(h1, pos)
         ELSE SmoothAndPush(h, pos)

\* mutant: the snap test is > instead of >=
handlePosition_SnapsLate(h, pos) ==
    IF AccuracyRejected(h, pos) THEN h
    ELSE IF IsStationary(h, pos)
         THEN LET h1 == [h EXCEPT !.stableCountRef = h.stableCountRef + 1]
              IN  IF h1.stableCountRef > SNAP_AFTER_STABLE_COUNT
                  THEN Snap(h1)
                  ELSE SmoothAndPush(h1, pos)
         ELSE SmoothAndPush([h EXCEPT !.stableCountRef = 0], pos)

handlePosition(h, pos) ==
    IF AccuracyRejected(h, pos) THEN h
    ELSE IF IsStationary(h, pos)
         THEN LET h1 == [h EXCEPT !.stableCountRef = h.stableCountRef + 1]
              IN  IF h1.stableCountRef >= SNAP_AFTER_STABLE_COUNT
                  THEN Snap(h1)
                  ELSE SmoothAndPush(h1, pos)
         ELSE SmoothAndPush([h EXCEPT !.stableCountRef = 0], pos)

\* the reading gets as far as smooth()
ReachesSmoothing(h, pos) ==
    /\ ~AccuracyRejected(h, pos)
    /\ ~(IsStationary(h, pos) /\ h.stableCountRef + 1 >= SNAP_AFTER_STABLE_COUNT)

\* the bounds of the model allow this reading in this state
Deliverable(h, pos) ==
    /\ ReachesSmoothing(h, pos) => Representable(h.smoothedRef, pos)
    /\ (~AccuracyRejected(h, pos) /\ IsStationary(h, pos)) => h.stableCountRef < MaxStable

\* --------------------------------------------------------------- handleError
clearWatch(h) ==
    IF h.watchIdRef # 0
    THEN [h EXCEPT !.activeWatches = h.activeWatches \ {h.watchIdRef},
                   !.watchIdRef = 0]
    ELSE h

\* mutant: the denied branch does not clear the watch
handleError_KeepsWatch(h, code) ==
    IF code = "PERMISSION_DENIED"
    THEN [h EXCEPT !.state = [h.state EXCEPT !.error = ERR_DENIED,
                                             !.loading = FALSE,
                                             !.permissionState = "denied"]]
    ELSE [h EXCEPT !.state = [h.state EXCEPT
              !.error = IF h.state.latitude = None THEN ERR_ACQUIRING ELSE NoError,
              !.loading = (h.state.latitude = None)]]

\* mutant: every error code is treated as a denial
handleError_AlwaysDenied(h, code) ==
    clearWatch([h EXCEPT !.state = [h.state EXCEPT !.error = ERR_DENIED,
                                                         !.loading = FALSE,
                                                         !.permissionState = "denied"]])

handleError(h, code) ==
    IF code = "PERMISSION_DENIED"
    THEN clearWatch([h EXCEPT !.state = [h.state EXCEPT !.error = ERR_DENIED,
                                                         !.loading = FALSE,
                                                         !.permissionState = "denied"]])
    ELSE [h EXCEPT !.state = [h.state EXCEPT
              !.error = IF h.state.latitude = None THEN ERR_ACQUIRING ELSE NoError,
              !.loading = (h.state.latitude = None)]]

\* ------------------------------------------------------------- startWatching
\* watchPosition returns an id no active watch has (ids are opaque; the least one)
FreshWatchId(ws) ==
    CHOOSE i \in 1..(Cardinality(ws) + 1) : i \notin ws /\ \A j \in 1..(i - 1) : j \in ws

\* the callbacks startWatching passes to watchPosition, lines 223-224
onWatchSuccess(h, pos) == handlePosition(h, pos)

onWatchError(h, code) == handleError(h, code)

startWatching(h, isCancelled) ==
    IF isCancelled THEN h
    ELSE LET id == FreshWatchId(h.activeWatches)
         IN  [h EXCEPT !.watchIdRef = id,
                       !.activeWatches = h.activeWatches \cup {id}]

\* mutant: a change to 'denied' shows the probe's message, not the revoked one
onPermissionChange_DeniedMessage(h, newState, isCancelled) ==
    IF newState = "denied"
    THEN clearWatch([h EXCEPT !.state = [h.state EXCEPT !.error = ERR_DENIED,
                                                         !.permissionState = "denied"]])
    ELSE IF newState = "granted" /\ h.watchIdRef = 0
         THEN startWatching(h, isCancelled)
         ELSE h

\* mutant: a change to 'granted' restarts the watch without testing watchIdRef
onPermissionChange_AlwaysRestarts(h, newState, isCancelled) ==
    IF newState = "denied"
    THEN clearWatch([h EXCEPT !.state = [h.state EXCEPT !.error = ERR_REVOKED,
                                                         !.permissionState = "denied"]])
    ELSE IF newState = "granted"
         THEN startWatching(h, isCancelled)
         ELSE h

\* mutant: a change to 'denied' does not clear the watch
onPermissionChange_KeepsWatch(h, newState, isCancelled) ==
    IF newState = "denied"
    THEN [h EXCEPT !.state = [h.state EXCEPT !.error = ERR_REVOKED,
                                             !.permissionState = "denied"]]
    ELSE IF newState = "granted" /\ h.watchIdRef = 0
         THEN startWatching(h, isCancelled)
         ELSE h

\* ------------------------------------------------- permission change listener
\* result.addEventListener('change', ...) body, lines 256-271
onPermissionChange(h, newState, isCancelled) ==
    IF newState = "denied"
    THEN clearWatch([h EXCEPT !.state = [h.state EXCEPT !.error = ERR_REVOKED,
                                                         !.permissionState = "denied"]])
    ELSE IF newState = "granted" /\ h.watchIdRef = 0
         THEN startWatching(h, isCancelled)
         ELSE h

\* ------------------------------------------------------------ effect cleanup
\* lines 282-291 (cancelled = true is set by the action)
\* mutant: the cleanup also forgets the smoothed position
cleanup_ClearsPosition(h) ==
    LET h1 == clearWatch([h EXCEPT !.smoothedRef = None])
    IN  IF h1.stalenessTimerRef # 0
        THEN [h1 EXCEPT !.timers = clearTimeout(h1.timers, h1.stalenessTimerRef)]
        ELSE h1

cleanup(h) ==
    LET h1 == clearWatch(h)
    IN  IF h1.stalenessTimerRef # 0
        THEN [h1 EXCEPT !.timers = clearTimeout(h1.timers, h1.stalenessTimerRef)]
        ELSE h1

\* --------------------------------------------------------------- recalibrate
\* mutant: recalibrate() starts over from an empty position
recalibrateState_ResetsPosition(st) ==
    [st EXCEPT !.loading = TRUE, !.error = NoError, !.stale = FALSE,
               !.latitude = None, !.longitude = None, !.accuracy = None]

\* setState(prev => ({ ...prev, loading: true, error: null, stale: false }))
recalibrateState(st) == [st EXCEPT !.loading = TRUE, !.error = NoError, !.stale = FALSE]

\* mutant: a failed recalibration is taken for a denial
recalibrateFailed_MarksDenied(st) ==
    [st EXCEPT !.error = ERR_RECAL, !.loading = FALSE, !.permissionState = "denied"]

\* the getCurrentPosition error callback
recalibrateFailed(st) == [st EXCEPT !.error = ERR_RECAL, !.loading = FALSE]

\* mutant: a failed recalibration also stops the continuous subscription
onRecalError_ClearsWatch(h) == clearWatch([h EXCEPT !.state = recalibrateFailed(h.state)])

\* (err) => { setState(...) }, lines 302-308
onRecalError(h) == [h EXCEPT !.state = recalibrateFailed(h.state)]

\* mutant: a recalibration reading is published as it is, past the gates
onRecalSuccess_Bypass(h, pos) ==
    SmoothAndPush([h EXCEPT !.smoothedRef = None, !.lastPushedRef = None], pos)

\* (pos) => handlePosition(pos.coords), line 301
onRecalSuccess(h, pos) == handlePosition(h, pos)

\* ------------------------------------------------------- distance to target
\* useDistanceTo, lines 319-329 (the memoised value is the function of its inputs)
\* mutant: an unknown user position gives distance 0
useDistanceTo_ZeroWhenUnknown(userLat, userLng, targetLat, targetLng) ==
    IF userLat = None \/ userLng = None THEN Some(0)
    ELSE Some(haversine(Val(userLat), Val(userLng), targetLat, targetLng))

useDistanceTo(userLat, userLng, targetLat, targetLng) ==
    IF userLat = None \/ userLng = None THEN None
    ELSE Some(haversine(Val(userLat), Val(userLng), targetLat, targetLng))

\* GameScreen: the caches a player can select and the admin's mock locations
CacheSet == {[lat |-> 0, lng |-> 0], [lat |-> (100 * Scale) \div 3, lng |-> 0]}
SelectedCaches == {None} \cup {Some(c) : c \in CacheSet}
MockLocations == {None, Some([latitude |-> MIN_MOVEMENT_THRESHOLD * Scale, longitude |-> 0])}

\* GameScreen.tsx lines 66-72
effectiveLocation(mockLocation, geo) ==
    IF mockLocation # None THEN mockLocation
    ELSE IF geo.latitude # None /\ geo.longitude # None
         THEN Some([latitude |-> Val(geo.latitude), longitude |-> Val(geo.longitude)])
         ELSE None

\* GameScreen.tsx lines 151-156
screenDistance(mockLocation, geo, selectedCache) ==
    LET loc == effectiveLocation(mockLocation, geo)
    IN  useDistanceTo(IF loc = None THEN None ELSE Some(Val(loc).latitude),
                      IF loc = None THEN None ELSE Some(Val(loc).longitude),
                      IF selectedCache = None THEN 0 ELSE Val(selectedCache).lat,
                      IF selectedCache = None THEN 0 ELSE Val(selectedCache).lng)

\* GameScreen.tsx line 285: distance={selectedCache ? distance : null}
distanceProp(selectedCache, distance) ==
    IF selectedCache # None THEN distance ELSE None

\* ------------------------------------------------------------------- Init
InitialState == [latitude |-> None, longitude |-> None, accuracy |-> None,
                 error |-> NoError, loading |-> TRUE,
                 permissionState |-> "prompt", stale |-> FALSE]

Init ==
    /\ hasGeolocation \in BOOLEAN
    /\ hasPermissionsApi \in BOOLEAN
    /\ permStatus \in PlatformPermissions
    /\ phase = "init"
    /\ cancelled = FALSE
    /\ probe = "none"
    /\ listener = FALSE
    /\ state = InitialState
    /\ smoothedRef = None
    /\ lastPushedRef = None
    /\ stalenessTimerRef = 0
    /\ watchIdRef = 0
    /\ stableCountRef = 0
    /\ timers = << >>
    /\ activeWatches = {}
    /\ recalPending = 0
    /\ silentMs = 0

\* ---------------------------------------------------------------- actions
\* the effect body, lines 207-280, up to the first asynchronous point
unsupportedState(st) ==
    [st EXCEPT !.error = ERR_UNSUPPORTED, !.loading = FALSE,
               !.permissionState = "unsupported"]

Mount ==
    /\ phase = "init"
    /\ phase' = "mounted"
    /\ cancelled' = FALSE
    /\ IF ~hasGeolocation
       THEN /\ SetHook([Hook EXCEPT !.state = unsupportedState(state)])
            /\ probe' = probe
       ELSE IF hasPermissionsApi
            THEN /\ probe' = "pending"
                 /\ SetHook(Hook)
            ELSE /\ probe' = probe
                 /\ SetHook(startWatching(Hook, FALSE))
    /\ UNCHANGED << env, permStatus, listener, recalPending >>

\* mutant: the denied branch falls through to startWatching
probeDenied_StartsWatch(h) ==
    startWatching([h EXCEPT !.state = [h.state EXCEPT !.error = ERR_DENIED,
                                                      !.loading = FALSE,
                                                      !.permissionState = "denied"]],
                  FALSE)

\* the .then handler of navigator.permissions.query, lines 233-272
probeDenied(h) ==
    [h EXCEPT !.state = [h.state EXCEPT !.error = ERR_DENIED, !.loading = FALSE,
                                        !.permissionState = "denied"]]

\* mutant: the allowed branch records the result but starts no watch
probeAllowed_NoWatch(h, result, isCancelled) ==
    [h EXCEPT !.state = [h.state EXCEPT !.permissionState = result]]

probeAllowed(h, result, isCancelled) ==
    startWatching([h EXCEPT !.state = [h.state EXCEPT !.permissionState = result]],
                  isCancelled)

\* mutant: the handler does not test `cancelled` first
onProbeResolved_NoCancelTest(h, result, isCancelled) ==
    IF result = "denied" THEN probeDenied(h)
    ELSE probeAllowed(h, result, isCancelled)

\* .then(result => { if (cancelled) return; ... }), lines 233-253
onProbeResolved(h, result, isCancelled) ==
    IF isCancelled THEN h
    ELSE IF result = "denied" THEN probeDenied(h)
    ELSE probeAllowed(h, result, isCancelled)

ProbeResolve ==
    /\ probe = "pending"
    /\ SetHook(onProbeResolved(Hook, permStatus, cancelled))
    /\ IF cancelled
       THEN /\ probe' = "ignored"
            /\ listener' = listener
       ELSE IF permStatus = "denied"
            THEN /\ probe' = "denied"
                 /\ listener' = listener
            ELSE /\ probe' = "resolved"
                 /\ listener' = TRUE
    /\ UNCHANGED << env, permStatus, phase, cancelled, recalPending >>

\* the .catch handler, lines 273-276
ProbeReject ==
    /\ probe = "pending"
    /\ probe' = IF cancelled THEN "ignored" ELSE "rejected"
    /\ SetHook(IF ~cancelled THEN startWatching(Hook, cancelled) ELSE Hook)
    /\ UNCHANGED << env, permStatus, phase, cancelled, listener, recalPending >>

\* the platform permission changes; the 'change' event runs the listener if any
PermissionChange(newState) ==
    /\ phase # "init"
    /\ hasGeolocation
    /\ newState # permStatus
    /\ permStatus' = newState
    /\ IF listener
       THEN SetHook(onPermissionChange(Hook, newState, cancelled))
       ELSE SetHook(Hook)
    /\ UNCHANGED << env, phase, cancelled, probe, listener, recalPending >>

\* success callback of watchPosition, line 223
WatchPosition(pos) ==
    /\ activeWatches # {}
    /\ permStatus # "denied"
    /\ Deliverable(Hook, pos)
    /\ SetHook(onWatchSuccess(Hook, pos))
    /\ UNCHANGED << env, permStatus, phase, cancelled, probe, listener, recalPending >>

\* error callback of watchPosition, line 224
WatchError(code) ==
    /\ activeWatches # {}
    /\ SetHook(onWatchError(Hook, code))
    /\ UNCHANGED << env, permStatus, phase, cancelled, probe, listener, recalPending >>

\* mutant: no navigator.geolocation test
Recalibrate_NoSupportCheck ==
    /\ phase = "mounted"
    /\ recalPending < MaxRecal
    /\ state' = recalibrateState(state)
    /\ recalPending' = recalPending + 1
    /\ UNCHANGED << env, permStatus, phase, cancelled, probe, listener, smoothedRef,
                    lastPushedRef, stalenessTimerRef, watchIdRef, stableCountRef,
                    timers, activeWatches, silentMs >>

\* recalibrate(), lines 295-311, up to the asynchronous request
Recalibrate ==
    /\ phase = "mounted"
    /\ IF ~hasGeolocation
       THEN UNCHANGED << state, recalPending >>
       ELSE /\ recalPending < MaxRecal
            /\ state' = recalibrateState(state)
            /\ recalPending' = recalPending + 1
    /\ UNCHANGED << env, permStatus, phase, cancelled, probe, listener, smoothedRef,
                    lastPushedRef, stalenessTimerRef, watchIdRef, stableCountRef,
                    timers, activeWatches, silentMs >>

\* success callback of getCurrentPosition, line 301
RecalSuccess(pos) ==
    /\ recalPending > 0
    /\ permStatus # "denied"
    /\ Deliverable(Hook, pos)
    /\ recalPending' = recalPending - 1
    /\ SetHook(onRecalSuccess(Hook, pos))
    /\ UNCHANGED << env, permStatus, phase, cancelled, probe, listener >>

\* error callback of getCurrentPosition, lines 302-308
RecalError ==
    /\ recalPending > 0
    /\ recalPending' = recalPending - 1
    /\ SetHook(onRecalError(Hook))
    /\ UNCHANGED << env, permStatus, phase, cancelled, probe, listener >>

\* a pending staleness timer is due and its callback runs, lines 118-120 / 147-149
TimerFire(id) ==
    /\ id \in DOMAIN timers
    /\ timers[id] = 0
    /\ SetHook([Hook EXCEPT !.timers = clearTimeout(timers, id),
                            !.state = StalenessCallback(state)])
    /\ UNCHANGED << env, permStatus, phase, cancelled, probe, listener, recalPending >>

\* TickMs pass; a due timer runs before more time passes
Min(a, b) == IF a < b THEN a ELSE b

Tick ==
    /\ phase # "init"
    /\ \A id \in DOMAIN timers : timers[id] > 0
    /\ timers' = [id \in DOMAIN timers |-> IF timers[id] > TickMs THEN timers[id] - TickMs ELSE 0]
    /\ silentMs' = Min(silentMs + TickMs, STALENESS_TIMEOUT_MS)
    /\ UNCHANGED << env, permStatus, phase, cancelled, probe, listener, state,
                    smoothedRef, lastPushedRef, stalenessTimerRef, watchIdRef,
                    stableCountRef, activeWatches, recalPending >>

\* unmount: React runs the cleanup the effect returned (none on the unsupported path)
Teardown ==
    /\ phase = "mounted"
    /\ phase' = "unmounted"
    /\ IF hasGeolocation
       THEN /\ cancelled' = TRUE
            /\ SetHook(cleanup(Hook))
       ELSE /\ cancelled' = cancelled
            /\ SetHook(Hook)
    /\ UNCHANGED << env, permStatus, probe, listener, recalPending >>

Next ==
    \/ Mount
    \/ ProbeResolve
    \/ ProbeReject
    \/ \E newState \in PlatformPermissions : PermissionChange(newState)
    \/ \E pos \in Coords : WatchPosition(pos)
    \/ \E code \in ErrorCodes : WatchError(code)
    \/ Recalibrate
    \/ \E pos \in Coords : RecalSuccess(pos)
    \/ RecalError
    \/ \E id \in DOMAIN timers : TimerFire(id)
    \/ Tick
    \/ Teardown

Spec == Init /\ [][Next]_vars

\* ================================================================ claims
\* the controller is live on a platform with permission introspection and the
\* initial probe has resolved
ProbeSettledLive ==
    hasGeolocation /\ hasPermissionsApi /\ phase = "mounted" /\ probe \in {"denied", "resolved"}

NoWatch == watchIdRef = 0 /\ activeWatches = {}

\* C1: in every reachable state, permissionState 'denied' implies that no
\* WatchHandle exists (watchIdRef is null and no platform subscription is active).
C1_DeniedImpliesNoWatch ==
    state.permissionState = "denied" => NoWatch

C3_DeniedErrorTearsDownForGood ==
    [][ /\ WatchError("PERMISSION_DENIED") =>
              (watchIdRef' = 0 /\ activeWatches' = {} /\ state'.permissionState = "denied")
        /\ (phase # "init" /\ probe # "pending" /\ activeWatches = {} /\ activeWatches' # {}) =>
              (permStatus # "granted" /\ permStatus' = "granted" /\ listener)
      ]_vars

\* no change listener exists, so 'denied' came from a PERMISSION_DENIED error
\* callback; a recalibration was then requested and failed; no subscription
C3_Witness ==
    /\ hasGeolocation /\ ~hasPermissionsApi /\ phase = "mounted"
    /\ state.permissionState = "denied"
    /\ state.error = ERR_RECAL
    /\ NoWatch

\* C4: with change notification, whenever the permission changes to 'granted'
\* while the controller is live and no WatchHandle exists, a continuous
\* subscription is started, however the subscription came to be absent.
C4_RegrantRestartsWatch ==
    [][ (ProbeSettledLive /\ watchIdRef = 0 /\ permStatus # "granted" /\ permStatus' = "granted")
            => watchIdRef' # 0 ]_vars

\* C5: after teardown no later event changes PublicState.
C5_NoStateChangeAfterTeardown ==
    [][ phase = "unmounted" => state' = state ]_vars

\* C6: right after teardown no continuous subscription is active, no staleness
\* timer is armed and no permission-change listener remains registered.
C6_TeardownReleasesEverything ==
    [][ (phase = "mounted" /\ phase' = "unmounted") =>
            (watchIdRef' = 0 /\ activeWatches' = {} /\ DOMAIN timers' = {} /\ ~listener') ]_vars

\* C7: in every reachable state of a live controller, once 30 s have passed
\* without a reading reaching the watchdog-rearm point (and no timer callback is
\* waiting to run), stale is true and error is non-empty.
C7_SilenceMeansStale ==
    (hasGeolocation /\ phase = "mounted" /\ silentMs >= STALENESS_TIMEOUT_MS
        /\ \A id \in DOMAIN timers : timers[id] > 0)
    => (state.stale /\ state.error # NoError)

\* C8: a 'denied' probe result sets permissionState 'denied', loading false and
\* an error message, starts no continuous subscription, and none is started in
\* any later state by a reading, error, timer or recalibration event.
C8_ProbeDeniedNeverWatches ==
    [][ /\ (probe = "pending" /\ probe' = "denied") =>
              /\ state'.permissionState = "denied"
              /\ ~state'.loading
              /\ state'.error # NoError
        /\ (probe' = "denied" /\ permStatus' = permStatus) =>
              (activeWatches' \subseteq activeWatches /\ watchIdRef' \in {0, watchIdRef})
      ]_vars

\* after a 'denied' probe the permission was re-granted and a recalibration
\* reading was accepted
C8_Witness ==
    probe = "denied" /\ smoothedRef # None /\ NoWatch

\* C9: without a location capability permissionState becomes 'unsupported' at
\* startup and stays so; no subscription, probe or one-shot request is ever
\* issued and recalibrate() leaves PublicState unchanged.
C9_UnsupportedIsTerminal ==
    ~hasGeolocation =>
        /\ state = (IF phase = "init" THEN InitialState ELSE unsupportedState(InitialState))
        /\ state.permissionState = (IF phase = "init" THEN "prompt" ELSE "unsupported")
        /\ NoWatch
        /\ probe = "none"
        /\ recalPending = 0
        /\ ~listener

\* unsupported platform, after unmount and 30 s
C9_Witness ==
    /\ ~hasGeolocation /\ phase = "unmounted"
    /\ silentMs = STALENESS_TIMEOUT_MS
    /\ state.permissionState = "unsupported" /\ state.error = ERR_UNSUPPORTED

\* the platform can deliver reading pos now (from the watch or from an
\* outstanding recalibration), handlePosition accepts it, and the model's bounds
\* allow delivering pos once more right after
CanFeedAccepted(pos) ==
    /\ activeWatches # {} \/ recalPending > 0
    /\ permStatus # "denied"
    /\ Deliverable(Hook, pos)
    /\ ~AccuracyRejected(Hook, pos)

CanRefeed(pos) ==
    /\ CanFeedAccepted(pos)
    /\ Deliverable(handlePosition(Hook, pos), pos)

SpeedSaysStationary(pos) ==
    pos.speed # None /\ Val(pos.speed) >= 0 /\ Val(pos.speed) < STATIONARY_SPEED

RawOf(pos) == [latitude |-> pos.latitude, longitude |-> pos.longitude, accuracy |-> pos.accuracy]

StationaryReadings ==
    {pos \in Coords : pos.speed = Some(0) /\ pos.accuracy <= MAX_ACCEPTABLE_ACCURACY * Scale}

\* a baseline exists and the subscription can deliver readings
BaselineAndWatching ==
    smoothedRef # None /\ activeWatches # {} /\ permStatus # "denied"

\* the distance of SmoothedPosition of h from PublishedPosition of g
Moved(g, h) ==
    haversine(Val(g.lastPushedRef).latitude, Val(g.lastPushedRef).longitude,
              Val(h.smoothedRef).latitude, Val(h.smoothedRef).longitude)

CanDeliver ==
    (activeWatches # {} \/ recalPending > 0) /\ permStatus # "denied"

\* C12: with a SmoothedPosition, a reading whose accuracy radius exceeds 100 m
\* is discarded with no effect at all: SmoothedPosition, PublishedPosition,
\* StableReadingCount, every PublicState field and the staleness timer are
\* unchanged, whatever its speed, from the watch and from recalibration alike.
C12_InaccurateReadingDiscarded ==
    (smoothedRef # None /\ CanDeliver) =>
        \A pos \in Coords :
            pos.accuracy > MAX_ACCEPTABLE_ACCURACY * Scale =>
                /\ Deliverable(Hook, pos)
                /\ handlePosition(Hook, pos) = Hook

\* a recalibration reading was discarded by the accuracy gate: the request is
\* over and loading is still as recalibrate() set it
C12_Witness ==
    /\ phase = "mounted" /\ smoothedRef # None
    /\ recalPending = 0 /\ state.loading
    /\ state.latitude # None

\* C13: with no SmoothedPosition yet, any reading, whatever its accuracy radius
\* and speed, is accepted: SmoothedPosition and PublishedPosition become the raw
\* reading, the PublicState coordinates and accuracy equal it, and error = null,
\* loading = false, stale = false, permissionState = 'granted'.
C13_FirstReadingAccepted ==
    (smoothedRef = None /\ CanDeliver) =>
        \A pos \in Coords :
            \A h1 \in {handlePosition(Hook, pos)} :
                /\ Deliverable(Hook, pos)
                /\ h1.smoothedRef = Some(RawOf(pos))
                /\ h1.lastPushedRef = Some(RawOf(pos))
                /\ h1.state = [latitude |-> Some(pos.latitude),
                               longitude |-> Some(pos.longitude),
                               accuracy |-> Some(pos.accuracy),
                               error |-> NoError, loading |-> FALSE,
                               permissionState |-> "granted", stale |-> FALSE]

\* the first reading had an accuracy radius of 200 m and was accepted as it is
C13_Witness ==
    /\ smoothedRef # None
    /\ Val(smoothedRef).accuracy > MAX_ACCEPTABLE_ACCURACY * Scale
    /\ lastPushedRef = smoothedRef
    /\ state.accuracy = Some(Val(smoothedRef).accuracy)
    /\ state.latitude = Some(Val(smoothedRef).latitude)
    /\ state.permissionState = "granted" /\ ~state.loading /\ ~state.stale
    /\ state.error = NoError

\* C14: while a recalibration request is outstanding, PublicState.loading is
\* true, under every interleaving with watch readings, watch error callbacks
\* and permission-change notifications.
C14_LoadingWhileRecalibrating ==
    (hasGeolocation /\ recalPending > 0) => state.loading

\* C15: a failed recalibration request sets error to the 'Recalibration
\* failed' message and loading to false, and leaves permissionState, the
\* WatchHandle and the subscription, the published coordinates, stale,
\* SmoothedPosition, PublishedPosition, StableReadingCount and the staleness
\* timer unchanged, in every state in which the failure can be delivered.
C15_RecalFailureOnlySetsError ==
    recalPending > 0 =>
        \A h1 \in {onRecalError(Hook)} :
            /\ h1.state.error = ERR_RECAL
            /\ ~h1.state.loading
            /\ h1.state.permissionState = state.permissionState
            /\ h1.watchIdRef = watchIdRef
            /\ h1.activeWatches = activeWatches
            /\ h1.state.latitude = state.latitude
            /\ h1.state.longitude = state.longitude
            /\ h1.state.accuracy = state.accuracy
            /\ h1.state.stale = state.stale
            /\ h1.smoothedRef = smoothedRef
            /\ h1.lastPushedRef = lastPushedRef
            /\ h1.stableCountRef = stableCountRef
            /\ h1.stalenessTimerRef = stalenessTimerRef
            /\ h1.timers = timers

\* a recalibration failed while the subscription was running with a position
\* and an armed staleness timer
C15_Witness ==
    /\ phase = "mounted" /\ recalPending = 0
    /\ state.error = ERR_RECAL /\ ~state.loading
    /\ watchIdRef # 0 /\ activeWatches = {watchIdRef}
    /\ state.permissionState = "granted"
    /\ state.latitude # None
    /\ stalenessTimerRef \in DOMAIN timers

\* C16: a recalibration reading is gated exactly like a continuous-watch
\* reading: in every state in which a reading can arrive and for every
\* reading, the recalibration success
\* callback produces the same SmoothedPosition, PublishedPosition,
\* StableReadingCount, timer arming and PublicState as the watch success
\* callback does.
C16_RecalGatedLikeWatch ==
    [](
        \A pos \in Coords :
            (CanDeliver /\ Deliverable(Hook, pos)) =>
                \A viaRecal \in {onRecalSuccess(Hook, pos)} :
                \A viaWatch \in {onWatchSuccess(Hook, pos)} :
                    /\ viaRecal.smoothedRef = viaWatch.smoothedRef
                    /\ viaRecal.lastPushedRef = viaWatch.lastPushedRef
                    /\ viaRecal.stableCountRef = viaWatch.stableCountRef
                    /\ viaRecal.stalenessTimerRef = viaWatch.stalenessTimerRef
                    /\ viaRecal.timers = viaWatch.timers
                    /\ viaRecal.state = viaWatch.state
    )

\* no subscription was ever started (the probe said 'denied'), so every
\* reading came from recalibration; the last one was smoothed over a baseline
\* and held back by the movement threshold
C16_Witness ==
    /\ probe = "denied" /\ watchIdRef = 0
    /\ smoothedRef # None /\ lastPushedRef # smoothedRef
    /\ state.permissionState = "granted"
    /\ recalPending = 0

TransientCodes == {"POSITION_UNAVAILABLE", "TIMEOUT"}

\* C17: a transient error callback (POSITION_UNAVAILABLE or TIMEOUT) of the
\* continuous subscription leaves permissionState, the WatchHandle and the
\* subscription, the published coordinates, stale, SmoothedPosition,
\* PublishedPosition, StableReadingCount and the staleness timer as they were.
C17_TransientErrorKeepsWatch ==
    activeWatches # {} =>
        \A code \in TransientCodes :
            \A h1 \in {onWatchError(Hook, code)} :
                /\ h1.state.permissionState = state.permissionState
                /\ h1.watchIdRef = watchIdRef
                /\ h1.activeWatches = activeWatches
                /\ h1.state.latitude = state.latitude
                /\ h1.state.longitude = state.longitude
                /\ h1.state.accuracy = state.accuracy
                /\ h1.state.stale = state.stale
                /\ h1.smoothedRef = smoothedRef
                /\ h1.lastPushedRef = lastPushedRef
                /\ h1.stableCountRef = stableCountRef
                /\ h1.stalenessTimerRef = stalenessTimerRef
                /\ h1.timers = timers

\* the signal went stale with a position published and a transient error
\* followed: the subscription runs on and stale is still set
C17_Witness ==
    /\ state.stale /\ state.error = NoError /\ state.latitude # None
    /\ watchIdRef # 0 /\ activeWatches = {watchIdRef}
    /\ state.permissionState = "granted"

AtMovementGate(pos) ==
    /\ CanDeliver
    /\ lastPushedRef # None
    /\ Deliverable(Hook, pos)
    /\ pos.accuracy <= MAX_ACCEPTABLE_ACCURACY * Scale
    /\ ~(SpeedSaysStationary(pos) /\ stableCountRef + 1 >= SNAP_AFTER_STABLE_COUNT)

\* the distance of the new SmoothedPosition from PublishedPosition
NewDistance(pos) ==
    LET smoothed == smooth(smoothedRef, RawOf(pos))
    IN  haversine(Val(lastPushedRef).latitude, Val(lastPushedRef).longitude,
                  smoothed.latitude, smoothed.longitude)

\* C19: when a reading passes the accuracy and stationary gates and the new
\* SmoothedPosition is less than 5 m from PublishedPosition, the exposed
\* latitude/longitude/accuracy and PublishedPosition are unchanged,
\* SmoothedPosition is replaced, and afterwards error = null, loading = false
\* and stale = false.
C19_SmallMoveKeepsCoordinates ==
    [](
        \A pos \in Coords :
            (AtMovementGate(pos) /\ NewDistance(pos) < MIN_MOVEMENT_THRESHOLD * Scale) =>
                \A h1 \in {handlePosition(Hook, pos)} :
                    /\ h1.state.latitude = state.latitude
                    /\ h1.state.longitude = state.longitude
                    /\ h1.state.accuracy = state.accuracy
                    /\ h1.lastPushedRef = lastPushedRef
                    /\ h1.smoothedRef = Some(smooth(smoothedRef, RawOf(pos)))
                    /\ h1.state.error = NoError
                    /\ ~h1.state.loading
                    /\ ~h1.state.stale
    )

\* SmoothedPosition has moved off PublishedPosition by less than 5 m (as 4.25 m
\* against a published 5 m) and the exposed coordinates are still the
\* published ones
C19_Witness ==
    /\ smoothedRef # None /\ lastPushedRef # None
    /\ Val(smoothedRef).latitude # Val(lastPushedRef).latitude
    /\ Moved(Hook, Hook) < MIN_MOVEMENT_THRESHOLD * Scale
    /\ state.latitude = Some(Val(lastPushedRef).latitude)
    /\ state.accuracy = Some(Val(lastPushedRef).accuracy)
    /\ state.error = NoError /\ ~state.loading /\ ~state.stale

\* C20: when a reading passes the accuracy and stationary gates and the new
\* SmoothedPosition is 5 m or more (boundary included) from PublishedPosition,
\* PublishedPosition and the exposed latitude/longitude/accuracy all become
\* the new SmoothedPosition, in the one update of that reading.
C20_LargeMovePublishes ==
    [](
        \A pos \in Coords :
            (AtMovementGate(pos) /\ NewDistance(pos) >= MIN_MOVEMENT_THRESHOLD * Scale) =>
                \A h1 \in {handlePosition(Hook, pos)} :
                \A smoothed \in {smooth(smoothedRef, RawOf(pos))} :
                    /\ h1.smoothedRef = Some(smoothed)
                    /\ h1.lastPushedRef = Some(smoothed)
                    /\ h1.state.latitude = Some(smoothed.latitude)
                    /\ h1.state.longitude = Some(smoothed.longitude)
                    /\ h1.state.accuracy = Some(smoothed.accuracy)
    )

\* a reading at 100/3 m over a baseline at 0 was smoothed to exactly 5 m, the
\* boundary, and published
C20_Witness ==
    /\ smoothedRef # None /\ lastPushedRef = smoothedRef
    /\ Val(smoothedRef).latitude = MIN_MOVEMENT_THRESHOLD * Scale
    /\ state.latitude = Some(MIN_MOVEMENT_THRESHOLD * Scale)
    /\ state.accuracy = Some(Val(smoothedRef).accuracy)

\* C21: after any reading that is not discarded by the accuracy gate, whether
\* it ends in the snap branch, the publish branch or the sub-threshold branch
\* and whether it came from the watch or from recalibration, PublicState has
\* permissionState = 'granted', error = null, loading = false and
\* stale = false, whatever those fields were before.
C21_AcceptedReadingClearsFlags ==
    [](CanDeliver =>
        \A pos \in Coords :
            (~(pos.accuracy > MAX_ACCEPTABLE_ACCURACY * Scale /\ smoothedRef # None)
                /\ Deliverable(Hook, pos)) =>
                \A viaWatch \in {onWatchSuccess(Hook, pos)} :
                \A viaRecal \in {onRecalSuccess(Hook, pos)} :
                    /\ viaWatch.state.permissionState = "granted"
                    /\ viaWatch.state.error = NoError
                    /\ ~viaWatch.state.loading
                    /\ ~viaWatch.state.stale
                    /\ viaRecal.state.permissionState = "granted"
                    /\ viaRecal.state.error = NoError
                    /\ ~viaRecal.state.loading
                    /\ ~viaRecal.state.stale)

\* without permission introspection a PERMISSION_DENIED error ended the
\* subscription; recalibration readings then brought the state back to
\* 'granted' and, being stationary, reached the snap branch
C21_Witness ==
    /\ hasGeolocation /\ ~hasPermissionsApi /\ phase = "mounted"
    /\ watchIdRef = 0
    /\ stableCountRef >= SNAP_AFTER_STABLE_COUNT
    /\ state.permissionState = "granted" /\ state.error = NoError
    /\ ~state.loading /\ ~state.stale

\* C22: the derived distance-to-target value is null whenever either endpoint
\* is unknown and the haversine distance between the endpoints otherwise:
\* useDistanceTo returns null exactly when the user latitude or longitude is
\* null, and the value handed to BottomSheet is null when no cache is selected.
C22_DistanceNullIffUnknown ==
    [](
    /\ \A userLat \in {None, state.latitude}, userLng \in {None, state.longitude} :
       \A target \in CacheSet :
       \A d \in {useDistanceTo(userLat, userLng, target.lat, target.lng)} :
           /\ (d = None) <=> (userLat = None \/ userLng = None)
           /\ d # None =>
                 Val(d) = haversine(Val(userLat), Val(userLng), target.lat, target.lng)
    /\ \A mock \in MockLocations, selected \in SelectedCaches :
       \A shown \in {distanceProp(selected, screenDistance(mock, state, selected))} :
           /\ selected = None => shown = None
           /\ effectiveLocation(mock, state) = None => shown = None
           /\ (selected # None /\ effectiveLocation(mock, state) # None) =>
                 shown = Some(haversine(Val(effectiveLocation(mock, state)).latitude,
                                        Val(effectiveLocation(mock, state)).longitude,
                                        Val(selected).lat, Val(selected).lng))
    )

\* a position is published and some cache is at a non-zero distance from it,
\* while with no cache selected the sheet gets null
C22_Witness ==
    /\ state.latitude # None /\ state.longitude # None
    /\ \E c \in CacheSet :
          /\ distanceProp(Some(c), screenDistance(None, state, Some(c))) \notin {None, Some(0)}
          /\ distanceProp(None, screenDistance(None, state, None)) = None

\* the reading is classified stationary by its speed in the current state
ClassifiedStationary(pos) == SpeedSaysStationary(pos) /\ smoothedRef # None

\* the accuracy gate discards the reading in the current state
Discarded(pos) == pos.accuracy > MAX_ACCEPTABLE_ACCURACY * Scale /\ smoothedRef # None

\* C23 (as stated): after the pipeline handles any reading that is not
\* classified stationary-by-speed (speed absent, negative, at or above 0.3 m/s,
\* or no baseline), whichever gate the reading stops at, StableReadingCount
\* is 0.
C23_NonStationaryResetsCount ==
    CanDeliver =>
        \A pos \in Coords :
            (~ClassifiedStationary(pos) /\ Deliverable(Hook, pos)) =>
                handlePosition(Hook, pos).stableCountRef = 0

\* C23 (amended): StableReadingCount counts the consecutive stationary
\* readings among those that passed the accuracy gate: a reading the accuracy
\* gate discards leaves it unchanged, a reading that passes and is not
\* classified stationary sets it to 0, and one that passes and is classified
\* stationary adds 1.
C23_CountTracksAcceptedRun ==
    [](CanDeliver =>
        \A pos \in Coords : Deliverable(Hook, pos) =>
            \A h1 \in {handlePosition(Hook, pos)} :
                h1.stableCountRef =
                    (IF Discarded(pos) THEN stableCountRef
                     ELSE IF ClassifiedStationary(pos) THEN stableCountRef + 1
                     ELSE 0))

\* a run of two stationary readings is counted, and a recalibration reading
\* was discarded by the accuracy gate without touching the count
C23_Witness ==
    /\ phase = "mounted" /\ smoothedRef # None
    /\ stableCountRef = 2
    /\ recalPending = 0 /\ state.loading

\* the staleness timer was cancelled and rearmed for the full timeout
Rearmed(h1) ==
    /\ h1.stalenessTimerRef # 0
    /\ DOMAIN h1.timers = (DOMAIN timers \ {stalenessTimerRef}) \cup {h1.stalenessTimerRef}
    /\ h1.timers[h1.stalenessTimerRef] = STALENESS_TIMEOUT_MS
    /\ \A id \in DOMAIN h1.timers \ {h1.stalenessTimerRef} : h1.timers[id] = timers[id]

\* C24: a reading whose speed is at or above 0.3 m/s, absent or negative and
\* that passes the accuracy gate resets StableReadingCount to 0 and goes
\* through smoothing, watchdog rearm and the movement-threshold gate, however
\* many stationary readings preceded it (also when the position was snapped).
C24_MovingReadingProcessed ==
    [](CanDeliver =>
        \A pos \in Coords :
            (~SpeedSaysStationary(pos) /\ ~Discarded(pos) /\ Deliverable(Hook, pos)) =>
                \A h1 \in {handlePosition(Hook, pos)} :
                \A smoothed \in {smooth(smoothedRef, RawOf(pos))} :
                    /\ h1.stableCountRef = 0
                    /\ h1.smoothedRef = Some(smoothed)
                    /\ Rearmed(h1)
                    /\ h1.lastPushedRef =
                          (IF lastPushedRef = None
                              \/ haversine(Val(lastPushedRef).latitude, Val(lastPushedRef).longitude,
                                           smoothed.latitude, smoothed.longitude)
                                     >= MIN_MOVEMENT_THRESHOLD * Scale
                           THEN Some(smoothed) ELSE lastPushedRef)
                    /\ h1.state.latitude = Some(Val(h1.lastPushedRef).latitude))

\* the position is snapped and a moving reading can arrive that resets the
\* count, moves SmoothedPosition and is published
C24_Witness ==
    /\ CanDeliver
    /\ stableCountRef >= SNAP_AFTER_STABLE_COUNT
    /\ \E pos \in Coords :
          /\ ~SpeedSaysStationary(pos) /\ ~Discarded(pos) /\ Deliverable(Hook, pos)
          /\ handlePosition(Hook, pos).stableCountRef = 0
          /\ handlePosition(Hook, pos).smoothedRef # smoothedRef
          /\ handlePosition(Hook, pos).lastPushedRef # lastPushedRef

\* C25: when a stationary reading brings StableReadingCount to 3 or more,
\* SmoothedPosition, PublishedPosition and the exposed
\* latitude/longitude/accuracy are left unchanged by that reading, and the
\* staleness timer is cancelled and rearmed for a full 30 s.
C25_SnapFreezesAndRearms ==
    [](CanDeliver =>
        \A pos \in Coords :
            (ClassifiedStationary(pos) /\ ~Discarded(pos) /\ Deliverable(Hook, pos)
                /\ stableCountRef + 1 >= SNAP_AFTER_STABLE_COUNT) =>
                \A h1 \in {handlePosition(Hook, pos)} :
                    /\ h1.stableCountRef = stableCountRef + 1
                    /\ h1.smoothedRef = smoothedRef
                    /\ h1.lastPushedRef = lastPushedRef
                    /\ h1.state.latitude = state.latitude
                    /\ h1.state.longitude = state.longitude
                    /\ h1.state.accuracy = state.accuracy
                    /\ Rearmed(h1))

\* just snapped: the one pending timer has the full 30 s to run
C25_Witness ==
    /\ stableCountRef >= SNAP_AFTER_STABLE_COUNT
    /\ stalenessTimerRef # 0
    /\ DOMAIN timers = {stalenessTimerRef}
    /\ timers[stalenessTimerRef] = STALENESS_TIMEOUT_MS
    /\ silentMs = 0

\* C26: at most one staleness timer is pending at any time: in every
\* reachable state the number of scheduled staleness callbacks that have
\* neither fired nor been cancelled is 0 or 1 (and it is the one the timer
\* cell refers to).
C26_AtMostOneTimer ==
    /\ Cardinality(DOMAIN timers) <= 1
    /\ DOMAIN timers \subseteq {stalenessTimerRef}

\* a recalibration reading arrived after teardown and armed a timer again
C26_Witness ==
    /\ phase = "unmounted"
    /\ Cardinality(DOMAIN timers) = 1
    /\ stalenessTimerRef \in DOMAIN timers

\* C27: when a permission-change notification reports 'denied' while a
\* continuous subscription is active, the subscription is cancelled, the
\* WatchHandle becomes absent, permissionState becomes 'denied' and error the
\* revoked-access message; the published coordinates are left unchanged.
C27_RevocationStopsWatch ==
    (listener /\ watchIdRef # 0 /\ activeWatches # {}) =>
        \A h1 \in {onPermissionChange(Hook, "denied", cancelled)} :
            /\ h1.activeWatches = {}
            /\ h1.watchIdRef = 0
            /\ h1.state.permissionState = "denied"
            /\ h1.state.error = ERR_REVOKED
            /\ h1.state.latitude = state.latitude
            /\ h1.state.longitude = state.longitude
            /\ h1.state.accuracy = state.accuracy
            /\ h1.lastPushedRef = lastPushedRef

\* the permission was revoked after a position had been published
C27_Witness ==
    /\ phase = "mounted" /\ listener /\ permStatus = "denied"
    /\ state.error = ERR_REVOKED /\ state.permissionState = "denied"
    /\ NoWatch
    /\ state.latitude # None

\* C28: if the initial permission probe returns 'granted' or 'prompt' and
\* teardown has not happened, permissionState is set to that result and
\* exactly one continuous subscription is started in the same step, so that
\* right after the probe is handled a WatchHandle exists.
C28_AllowedProbeStartsWatch ==
    (probe = "pending" /\ ~cancelled /\ permStatus # "denied") =>
        \A h1 \in {probeAllowed(Hook, permStatus, cancelled)} :
            /\ h1.state.permissionState = permStatus
            /\ activeWatches = {}
            /\ h1.watchIdRef # 0
            /\ h1.activeWatches = {h1.watchIdRef}

\* right after a 'granted' probe result: watching, nothing received yet
C28_Witness ==
    /\ probe = "resolved" /\ phase = "mounted"
    /\ state.permissionState = "granted" /\ state.loading
    /\ smoothedRef = None
    /\ watchIdRef # 0 /\ activeWatches = {watchIdRef}

\* a platform with a location capability but no usable permission introspection
NoIntrospection ==
    hasGeolocation /\ (~hasPermissionsApi \/ probe = "rejected")

\* C29: with a location capability but no permission introspection (or a
\* failing permission query), the continuous subscription is started at once
\* without a probe result, and permissionState stays 'prompt' until a reading
\* that passes the accuracy gate changes it to 'granted' or a PERMISSION_DENIED
\* error callback changes it to 'denied'; no other event changes it.
C29_OptimisticWatch ==
    [][ /\ (hasGeolocation /\ ~hasPermissionsApi /\ phase = "init" /\ phase' = "mounted") =>
              (watchIdRef' # 0 /\ activeWatches' = {watchIdRef'} /\ probe' = "none"
                  /\ state'.permissionState = "prompt")
        /\ (probe = "pending" /\ probe' = "rejected") =>
              (watchIdRef' # 0 /\ activeWatches' = {watchIdRef'} /\ state' = state)
        /\ (NoIntrospection /\ NoIntrospection'
                /\ state'.permissionState # state.permissionState) =>
              \/ /\ state'.permissionState = "granted"
                 /\ \E pos \in Coords :
                       /\ ~Discarded(pos)
                       /\ WatchPosition(pos) \/ RecalSuccess(pos)
              \/ /\ state'.permissionState = "denied"
                 /\ WatchError("PERMISSION_DENIED")
      ]_vars

\* no Permissions API: the watch runs, a recalibration has failed and nothing
\* was received, and permissionState is still 'prompt'
C29_Witness ==
    /\ hasGeolocation /\ ~hasPermissionsApi /\ phase = "mounted"
    /\ state.permissionState = "prompt"
    /\ watchIdRef # 0
    /\ state.error = ERR_RECAL
    /\ silentMs = STALENESS_TIMEOUT_MS

\* C30: the teardown cleanup is idempotent and safe in every state: running
\* it a second time, or when no subscription was ever started, or after the
\* staleness timer has fired or been cleared, changes nothing.
C30_CleanupIdempotent ==
    hasGeolocation =>
        \A h1 \in {cleanup(Hook)} :
            /\ cleanup(h1) = h1
            /\ h1.watchIdRef = 0
            /\ h1.timers = << >>
            /\ (watchIdRef = 0 /\ stalenessTimerRef \notin DOMAIN timers) => h1 = Hook

\* torn down with a position: the timer cell still names the cleared timer and
\* no watch or timer is left for a second cleanup to cancel
C30_Witness ==
    /\ phase = "unmounted" /\ hasGeolocation
    /\ watchIdRef = 0 /\ activeWatches = {}
    /\ stalenessTimerRef # 0 /\ timers = << >>
    /\ smoothedRef # None

\* s is alpha * raw + (1 - alpha) * prev, alpha = 3/20, in exact arithmetic
IsBlend(s, raw, prev) ==
    EMA_ALPHA_DEN * s = EMA_ALPHA_NUM * raw + (EMA_ALPHA_DEN - EMA_ALPHA_NUM) * prev

Between(x, a, b) == (a <= x /\ x <= b) \/ (b <= x /\ x <= a)

\* C31: the smoother returns the raw reading unchanged when there is no
\* previous position; otherwise each of latitude, longitude and accuracy is
\* 0.15 * raw + 0.85 * previous, which lies between the previous and the raw
\* value; previous (10,10,10) and raw (20,20,20) give (11.5,11.5,11.5).
C31_SmoothIsEma ==
    [](
    /\ \A pos \in Coords : smooth(None, RawOf(pos)) = RawOf(pos)
    /\ smooth(Some([latitude |-> 10 * Scale, longitude |-> 10 * Scale, accuracy |-> 10 * Scale]),
              [latitude |-> 20 * Scale, longitude |-> 20 * Scale, accuracy |-> 20 * Scale])
          = [latitude |-> (23 * Scale) \div 2, longitude |-> (23 * Scale) \div 2,
             accuracy |-> (23 * Scale) \div 2]
    /\ smoothedRef # None =>
          \A pos \in Coords : Representable(smoothedRef, RawOf(pos)) =>
              \A s \in {smooth(smoothedRef, RawOf(pos))} :
                  /\ IsBlend(s.latitude, pos.latitude, Val(smoothedRef).latitude)
                  /\ IsBlend(s.longitude, pos.longitude, Val(smoothedRef).longitude)
                  /\ IsBlend(s.accuracy, pos.accuracy, Val(smoothedRef).accuracy)
                  /\ Between(s.latitude, Val(smoothedRef).latitude, pos.latitude)
                  /\ Between(s.longitude, Val(smoothedRef).longitude, pos.longitude)
                  /\ Between(s.accuracy, Val(smoothedRef).accuracy, pos.accuracy)
    )

\* SmoothedPosition is itself a blend (its latitude is no raw latitude) and a
\* further reading away from it can be smoothed
C31_Witness ==
    /\ smoothedRef # None
    /\ Val(smoothedRef).latitude \notin LatSet
    /\ \E pos \in Coords :
          /\ Representable(smoothedRef, RawOf(pos))
          /\ pos.latitude # Val(smoothedRef).latitude
          /\ pos.accuracy # Val(smoothedRef).accuracy

\* C32: whenever PublicState.stale is true, PublicState.error is non-null.
C32_StaleImpliesError ==
    state.stale => state.error # NoError

\* C33: when the success or failure callback of a recalibration request is
\* delivered (the only steps that take a request off the outstanding ones),
\* PublicState.loading is false afterwards.
C33_RecalCallbackEndsLoading ==
    [][ recalPending' < recalPending => ~state'.loading ]_vars

\* C34: at most one continuous platform subscription is active at any time,
\* and an active subscription is the one whose id watchIdRef holds.
C34_NoLeakedWatch ==
    /\ Cardinality(activeWatches) <= 1
    /\ activeWatches \subseteq (IF watchIdRef # 0 THEN {watchIdRef} ELSE {})

\* the subscription was cancelled by a revocation and started again by the
\* change listener
C34_Witness ==
    /\ listener
    /\ state.error = ERR_REVOKED
    /\ watchIdRef # 0
    /\ activeWatches = {watchIdRef}

\* C35: if teardown has run before the permission probe resolves or rejects,
\* the step in which the probe completes starts no continuous subscription,
\* registers no permission-change listener and leaves PublicState unchanged.
C35_LateProbeIgnored ==
    [][ (cancelled /\ probe = "pending" /\ probe' # "pending") =>
            /\ watchIdRef' = 0
            /\ activeWatches' = {}
            /\ ~listener'
            /\ state' = state ]_vars

\* the probe completed after teardown, on a platform that grants the permission
C35_Witness ==
    /\ phase = "unmounted"
    /\ probe = "ignored"
    /\ permStatus = "granted"

\* C36: in every reachable state either PublishedPosition and SmoothedPosition
\* are both absent and PublicState latitude, longitude and accuracy are all
\* null, or all exist and PublicState latitude, longitude and accuracy equal
\* PublishedPosition field for field.
C36_CoordinatesMirrorPublished ==
    IF lastPushedRef = None
    THEN /\ smoothedRef = None
         /\ state.latitude = None
         /\ state.longitude = None
         /\ state.accuracy = None
    ELSE /\ smoothedRef # None
         /\ state.latitude = Some(Val(lastPushedRef).latitude)
         /\ state.longitude = Some(Val(lastPushedRef).longitude)
         /\ state.accuracy = Some(Val(lastPushedRef).accuracy)

\* a second publish has happened (PublishedPosition is a blend) and
\* SmoothedPosition has since moved on without a publish
C36_Witness ==
    /\ lastPushedRef # None
    /\ Val(lastPushedRef).latitude \notin LatSet
    /\ smoothedRef # lastPushedRef

\* distance between PublishedPosition and SmoothedPosition (both exist)
PublishLag ==
    haversine(Val(lastPushedRef).latitude, Val(lastPushedRef).longitude,
              Val(smoothedRef).latitude, Val(smoothedRef).longitude)

\* C37: whenever PublishedPosition and SmoothedPosition both exist, the
\* distance between them is strictly less than the 5 m movement threshold.
C37_PublishedWithinThreshold ==
    (lastPushedRef # None /\ smoothedRef # None) =>
        PublishLag < MIN_MOVEMENT_THRESHOLD * Scale

\* a pass moved SmoothedPosition by less than the threshold and did not publish
C37_Witness ==
    /\ lastPushedRef # None
    /\ smoothedRef # None
    /\ PublishLag > 0

\* the exposed coordinates
Coordinates == << state.latitude, state.longitude, state.accuracy >>

\* C38: once a position has been published, the exposed latitude, longitude
\* and accuracy never become null again, and the only step that changes them
\* is the delivery of a reading (by the subscription or by a recalibration)
\* whose smoothed position is at least 5 m from the exposed one and becomes
\* the exposed one; error callbacks, permission changes, the watchdog,
\* recalibrate() and recalibration failures leave them as they are.
C38_PublishedCoordinatesPersist ==
    [][ state.latitude # None =>
          /\ state'.latitude # None
          /\ state'.longitude # None
          /\ state'.accuracy # None
          /\ Coordinates' # Coordinates =>
                /\ Coordinates' = << Some(Val(smoothedRef').latitude),
                                     Some(Val(smoothedRef').longitude),
                                     Some(Val(smoothedRef').accuracy) >>
                /\ haversine(Val(state.latitude), Val(state.longitude),
                             Val(smoothedRef').latitude, Val(smoothedRef').longitude)
                       >= MIN_MOVEMENT_THRESHOLD * Scale
                /\ \E pos \in Coords : WatchPosition(pos) \/ RecalSuccess(pos)
      ]_vars

\* a position was published, the watchdog fired and the permission was then
\* denied; the coordinates are still exposed
C38_Witness ==
    /\ state.latitude # None
    /\ state.stale
    /\ state.permissionState = "denied"

====
